---- MODULE Spec2Model ----
(***************************************************************************)
(* Model of the ETA projection and delay classification of the Smart       *)
(* Delivery ETA Checker (src/eta_engine.py, src/config.py).                *)
(*                                                                         *)
(* Units.  Time is counted in ticks of 2 seconds, so a minute is 30 ticks  *)
(* and a tenth of a minute is 3 ticks: round(x, 1) of a duration on this   *)
(* grid never meets a tie.  A datetime is the number of ticks since a      *)
(* fixed origin; isoformat()/fromisoformat() are exact on datetimes, so a  *)
(* timestamp string is modelled by the datetime it denotes.  Coordinates   *)
(* are kilometres on a grid, distances are whole kilometres (multiples of  *)
(* 10 km between the modelled points, which makes every travel time a      *)
(* whole number of ticks for the speeds in use), traffic multipliers are   *)
(* tenths (8 is 0.8), and a delay_minutes / travel_time_min field holds    *)
(* tenths of a minute (the value after round(x, 1)).                       *)
(***************************************************************************)
EXTENDS Integers, Sequences, FiniteSets, TLC

VARIABLES engine, config, positions, stops,
          pc, pidx,
          driver_id, avg_speed, driver_stops, sidx,
          cumulative_time, current_position, eta_results,
          all_eta_results, eta_df, alerts_df,
          llm_available, service, communications, api_calls

inputs == <<engine, config, positions, stops, llm_available, service>>
comms == <<communications, api_calls>>
locals == <<driver_id, avg_speed, driver_stops, sidx,
            cumulative_time, current_position, eta_results>>
vars == <<engine, config, positions, stops, pc, pidx,
          driver_id, avg_speed, driver_stops, sidx,
          cumulative_time, current_position, eta_results,
          all_eta_results, eta_df, alerts_df,
          llm_available, service, communications, api_calls>>

(***************************************************************************)
(* Bounds of the model.                                                    *)
(***************************************************************************)
MaxStops == 3

(***************************************************************************)
(* Units and conversions.                                                  *)
(***************************************************************************)
TicksPerMinute == 3 * 10

\* timedelta(minutes=m) for a whole number of minutes m
Minutes(m) == m * TicksPerMinute

Abs(x) == IF x < 0 THEN 0 - x ELSE x

\* a slip: the tenths are cut off, not rounded
Round1_Truncate(ticks) == ticks \div 3

\* round(ticks / TicksPerMinute, 1), in tenths of a minute: the nearest
\* multiple of 3 ticks (1 tick rounds down, 2 ticks round up; no ties)
Round1(ticks) == (ticks + 1) \div 3

\* (a - b).total_seconds() / 60 kept exact: the difference in ticks
TotalTicks(a, b) == a - b

\* a timestamp string that datetime.fromisoformat rejects with ValueError,
\* kept apart from every datetime of the model
MalformedTimestamp == 0 - 1000000

\* datetime.fromisoformat(s.replace('Z', '+00:00')) returns a datetime
IsoParses(s) == s # MalformedTimestamp

\* the timestamp string of the instant t written with a zone designator
\* ('Z' or '+00:00'), and the aware datetime fromisoformat returns for it; a
\* string without designator and its naive datetime are the instant itself
Zoned(t) == t + 2 * 1000000

\* the datetime carries tzinfo; adding a timedelta keeps it
IsAware(t) == t >= 1000000

(***************************************************************************)
(* Configuration (src/config.py).                                          *)
(***************************************************************************)
STOP_SERVICE_TIME == 5
DELAY_THRESHOLD == 15
DEFAULT_SPEED == 45
TRAFFIC_MULTIPLIER_RANGE == <<8, 15>>

DRIVER_SPEEDS ==
  [d \in {"driver_001", "driver_002", "driver_003"} |->
     CASE d = "driver_001" -> 45
       [] d = "driver_002" -> 40
       [] d = "driver_003" -> 50]

\* eta_config = ETAConfig()
eta_config ==
  [DRIVER_SPEEDS |-> DRIVER_SPEEDS,
   STOP_SERVICE_TIME |-> STOP_SERVICE_TIME,
   TRAFFIC_MULTIPLIER_RANGE |-> TRAFFIC_MULTIPLIER_RANGE,
   DELAY_THRESHOLD |-> DELAY_THRESHOLD]

\* ETAEngine(config) with a caller's configuration: no dwell time
ZeroServiceConfig == [eta_config EXCEPT !.STOP_SERVICE_TIME = 0]

\* ETAEngine(config) with a speed table holding non-positive speeds
DegenerateSpeedConfig ==
  [eta_config EXCEPT !.DRIVER_SPEEDS =
     [d \in {"driver_002", "driver_009"} |->
        IF d = "driver_002" THEN 0 ELSE 0 - 45]]

\* ETAEngine(config) with a narrower traffic range
CalmTrafficConfig == [eta_config EXCEPT !.TRAFFIC_MULTIPLIER_RANGE = <<10, 12>>]

Configs ==
  {eta_config, ZeroServiceConfig, DegenerateSpeedConfig, CalmTrafficConfig}

(***************************************************************************)
(* Pure functions of ETAEngine.                                            *)
(***************************************************************************)
\* geodesic distance in km; the modelled points lie on a km grid
calculate_distance(lat1, lon1, lat2, lon2) ==
  Abs(lat1 - lat2) + Abs(lon1 - lon2)

\* a slip in the guard: only a speed of exactly 0 is caught
calculate_travel_time_ZeroOnly(distance_km, avg_speed_kmh, traffic_multiplier) ==
  IF avg_speed_kmh = 0
    THEN 0
    ELSE (distance_km * traffic_multiplier * 6 * TicksPerMinute)
           \div avg_speed_kmh

\* a slip: a speed that is not positive is replaced by the default speed
calculate_travel_time_DefaultSpeed(distance_km, avg_speed_kmh, traffic_multiplier) ==
  (distance_km * traffic_multiplier * 6 * TicksPerMinute)
    \div (IF avg_speed_kmh <= 0 THEN DEFAULT_SPEED ELSE avg_speed_kmh)

\* travel time, in ticks: (distance_km / avg_speed_kmh) * multiplier * 60 min
calculate_travel_time(distance_km, avg_speed_kmh, traffic_multiplier) ==
  IF avg_speed_kmh <= 0
    THEN 0
    ELSE (distance_km * traffic_multiplier * 6 * TicksPerMinute)
           \div avg_speed_kmh

\* the values random.uniform(min, max) is sampled at
SampleGrid == {8, 10, 15}

\* a slip: the sample is taken as a surcharge on free-flowing traffic
generate_traffic_multiplier_Surcharge(cfg) ==
  {10 + m : m \in {x \in SampleGrid :
                     /\ cfg.TRAFFIC_MULTIPLIER_RANGE[1] <= x
                     /\ x <= cfg.TRAFFIC_MULTIPLIER_RANGE[2]}}

\* random.uniform(min_mult, max_mult)
generate_traffic_multiplier(cfg) ==
  {m \in SampleGrid : /\ cfg.TRAFFIC_MULTIPLIER_RANGE[1] <= m
                      /\ m <= cfg.TRAFFIC_MULTIPLIER_RANGE[2]}

\* the values random.random() is sampled at, in tenths
RandomDraws == {0, 2, 3, 4, 5, 9}

\* DelayedETAEngine.generate_traffic_multiplier: the tier chosen by the
\* first draw and, when it is not below 0.3, by a second draw
TierOf(r1, r2) ==
  IF r1 < 3 THEN "heavy" ELSE IF r2 < 5 THEN "moderate" ELSE "normal"

\* a slip: the heavy tier reaches up to 4.0
TierRange_HeavyTo4(tier) ==
  CASE tier = "heavy" -> <<20, 40>>
    [] tier = "moderate" -> <<15, 20>>
    [] tier = "normal" -> <<8, 12>>

\* the range random.uniform samples for the tier
TierRange(tier) ==
  CASE tier = "heavy" -> <<20, 35>>
    [] tier = "moderate" -> <<15, 20>>
    [] tier = "normal" -> <<8, 12>>

\* DelayedETAEngine.generate_traffic_multiplier, sampled at the ends of the
\* chosen tier
DelayedETAEngine_generate_traffic_multiplier ==
  UNION {{TierRange(TierOf(r1, r2))[1], TierRange(TierOf(r1, r2))[2]} :
           r1 \in RandomDraws, r2 \in RandomDraws}

\* self.generate_traffic_multiplier() of the engine in use
TrafficMultiplier(eng, cfg) ==
  IF eng = "DelayedETAEngine"
    THEN DelayedETAEngine_generate_traffic_multiplier
    ELSE generate_traffic_multiplier(cfg)

\* a slip: a driver absent from the table gets no speed
SpeedOf_ZeroDefault(cfg, d) ==
  IF d \in DOMAIN cfg.DRIVER_SPEEDS THEN cfg.DRIVER_SPEEDS[d] ELSE 0

\* self.config.DRIVER_SPEEDS.get(driver_id, 45.0)
SpeedOf(cfg, d) ==
  IF d \in DOMAIN cfg.DRIVER_SPEEDS THEN cfg.DRIVER_SPEEDS[d]
                                    ELSE DEFAULT_SPEED

\* a slip: the stops of every driver are taken
StopsOfDriver_Unfiltered(ss, d) == ss

\* [s for s in stops if s['driver_id'] == driver_id]
StopsOfDriver(ss, d) == SelectSeq(ss, LAMBDA s : s.driver_id = d)

\* list.sort(key=sequence) is stable: an element goes after every element
\* whose key is not greater
RECURSIVE InsertBySequence(_, _)
InsertBySequence(sorted, x) ==
  IF sorted = <<>> THEN <<x>>
  ELSE IF Head(sorted).sequence <= x.sequence
         THEN <<Head(sorted)>> \o InsertBySequence(Tail(sorted), x)
         ELSE <<x>> \o sorted

\* a slip: the stops are left in input order
SortBySequence_InputOrder(ss) == ss

RECURSIVE SortBySequence(_)
SortBySequence(ss) ==
  IF ss = <<>> THEN <<>>
  ELSE InsertBySequence(SortBySequence(SubSeq(ss, 1, Len(ss) - 1)),
                        ss[Len(ss)])

(***************************************************************************)
(* Inputs: the stop records and the driver observations of one run.        *)
(***************************************************************************)
DriverIds == {"driver_002", "driver_009"}

\* the j-th stop record of the input; delivery point j lies 10*j km north
\* of the depot
Stop(j, d, q, planned) ==
  [stop_id |-> j, driver_id |-> d, sequence |-> q,
   customer_name |-> <<"Customer", j>>,
   latitude |-> 10 * j, longitude |-> 0,
   planned_eta |-> planned]

\* one observation of driver d, taken at the depot at time ts
DriverPosition(d, ts) ==
  [driver_id |-> d, latitude |-> 0, longitude |-> 0, timestamp |-> ts]

\* one observation per driver, all taken at ts
Observations(ts) ==
  <<DriverPosition("driver_002", ts), DriverPosition("driver_009", ts)>>

\* Routes: any assignment of the stops to drivers and any visiting order
\* (sequence numbers unique per driver, in any input order); planned
\* arrivals every 30 minutes along the route as generate_stops plans them
RouteStops ==
  UNION {
    {[j \in 1..n |-> Stop(j, f[j][1], f[j][2], Minutes(30) * f[j][2])] :
       f \in {g \in [1..n -> DriverIds \X (1..n)] :
                \A a, b \in 1..n : g[a] = g[b] => a = b}} :
    n \in 0..MaxStops}

\* planned arrivals that put a projected arrival within a tick of the
\* planned one and of the 15, 20 and 30 minute marks
PlannedEtas == {0, 401}
Timestamps == {0, 1, 2}

\* Timings: stops in route order, any driver and planned arrival each
TimedStops ==
  UNION {
    {[j \in 1..n |-> Stop(j, f[j][1], j, f[j][2])] :
       f \in [1..n -> DriverIds \X PlannedEtas]} :
    n \in 1..MaxStops}

(***************************************************************************)
(* The external generator (src/llm_integration.py).                        *)
(***************************************************************************)
\* what the external service does with a call: it replies with JSON or with
\* plain text, or the call raises
ApiReplies == {"json_reply", "text_reply"}
ApiFailures == {"timeout", "auth_failure", "malformed_reply"}
ApiOutcomes == ApiReplies \cup ApiFailures

\* the reports list the first 5 alerts: alerts_df.head(5)
TopDelays == 5

\* the longest route of the inputs: one stop more than the reports list
MaxAlerts == IF MaxStops > TopDelays THEN MaxStops ELSE TopDelays + 1

\* generate_all_communications calls the generator at most twice and once
\* for each alert
MaxCalls == 2 + MaxAlerts

\* the service's outcome for each call of a run, in call order: the same for
\* every call, or replies and one failure in turn
ServiceBehaviours ==
  {[k \in 1..MaxCalls |-> o] : o \in ApiOutcomes}
    \cup {[k \in 1..MaxCalls |-> IF k % 2 = 1 THEN "json_reply" ELSE f] :
            f \in ApiFailures}
    \cup {[k \in 1..MaxCalls |-> IF k % 2 = 1 THEN f ELSE "text_reply"] :
            f \in ApiFailures}

\* communications before generate_all_communications has returned
NoCommunications == [timestamp |-> 0 - 1]

\* LLMIntegration() without OPENAI_API_KEY in the environment; a call of the
\* service would fail to authenticate
NoApiKey ==
  /\ llm_available = FALSE
  /\ service = [k \in 1..MaxCalls |-> "auth_failure"]

NoLocals ==
  /\ driver_id = "none"
  /\ avg_speed = 0
  /\ driver_stops = <<>>
  /\ sidx = 0
  /\ cumulative_time = 0
  /\ current_position = <<0, 0>>
  /\ eta_results = <<>>

\* a slip: the clock of the call is kept on the engine
DropLocals_KeepClock ==
  /\ driver_id' = "none"
  /\ avg_speed' = 0
  /\ driver_stops' = <<>>
  /\ sidx' = 0
  /\ cumulative_time' = cumulative_time
  /\ current_position' = <<0, 0>>
  /\ eta_results' = <<>>

\* the frame of calculate_eta_for_driver is gone after its return
DropLocals ==
  /\ driver_id' = "none"
  /\ avg_speed' = 0
  /\ driver_stops' = <<>>
  /\ sidx' = 0
  /\ cumulative_time' = 0
  /\ current_position' = <<0, 0>>
  /\ eta_results' = <<>>

InitRun ==
  /\ pc = "calculate_all_etas"
  /\ pidx = 1
  /\ NoLocals
  /\ all_eta_results = <<>>
  /\ eta_df = <<>>
  /\ alerts_df = <<>>
  /\ communications = NoCommunications
  /\ api_calls = 0

InitRoutes ==
  /\ NoApiKey
  /\ engine = "ETAEngine"
  /\ config \in Configs
  /\ positions = Observations(0)
  /\ stops \in RouteStops
  /\ InitRun

InitTimings ==
  /\ NoApiKey
  /\ engine = "ETAEngine"
  /\ config = eta_config
  /\ \E ts \in Timestamps : positions = Observations(ts)
  /\ stops \in TimedStops
  /\ InitRun

Init == InitRoutes \/ InitTimings

\* Inputs as a file may hold them: observations missing, repeated or with a
\* timestamp that does not parse
LoosePositions ==
  {<<>>,
   <<DriverPosition("driver_002", 0)>>,
   <<DriverPosition("driver_002", 0), DriverPosition("driver_009", 0)>>,
   <<DriverPosition("driver_002", 0), DriverPosition("driver_002", 0)>>,
   <<DriverPosition("driver_002", MalformedTimestamp),
     DriverPosition("driver_009", 0)>>,
   <<DriverPosition("driver_002", 0),
     DriverPosition("driver_009", MalformedTimestamp)>>}

\* stops whose sequence numbers may repeat within a driver and whose
\* planned_eta may not parse
LooseStops ==
  UNION {
    {[j \in 1..n |-> Stop(j, f[j][1], f[j][2], f[j][3])] :
       f \in [1..n -> DriverIds \X (1..2)
                        \X {Minutes(30), MalformedTimestamp}]} :
    n \in 0..MaxStops}

InitLoose ==
  /\ NoApiKey
  /\ engine = "ETAEngine"
  /\ config = eta_config
  /\ positions \in LoosePositions
  /\ stops \in LooseStops
  /\ InitRun

\* stops in route order, all planned at the time of the observation
OverdueStops ==
  UNION {
    {[j \in 1..n |-> Stop(j, f[j], j, 0)] : f \in [1..n -> DriverIds]} :
    n \in 1..MaxStops}

\* main.py without an API key over overdue routes
InitOverdue ==
  /\ NoApiKey
  /\ engine = "ETAEngine"
  /\ config = eta_config
  /\ positions = Observations(0)
  /\ stops \in OverdueStops
  /\ InitRun

\* ETAEngine(config) with the traffic multiplier fixed at 1.0
FixedTrafficConfig ==
  [eta_config EXCEPT !.TRAFFIC_MULTIPLIER_RANGE = <<10, 10>>]

\* a long route of driver_002 under steady traffic, observed half an hour
\* after the planned arrivals or ten hours before them, with or without an
\* API key
InitBusy ==
  /\ \/ NoApiKey
     \/ llm_available = TRUE /\ service \in ServiceBehaviours
  /\ engine = "ETAEngine"
  /\ config = FixedTrafficConfig
  /\ positions = <<DriverPosition("driver_002", Minutes(30))>>
  /\ \E n \in 0..(TopDelays + 1) : \E planned \in {0, Minutes(630)} :
       stops = [j \in 1..n |-> Stop(j, "driver_002", j, planned)]
  /\ InitRun

\* stops in route order, planned half an hour after the instant 0, the
\* planned_eta of each written with or without a zone designator
ZoneStops ==
  UNION {
    {[j \in 1..n |-> Stop(j, f[j][1], j, f[j][2])] :
       f \in [1..n -> DriverIds \X {Minutes(30), Zoned(Minutes(30))}]} :
    n \in 1..MaxStops}

\* well-formed inputs whose timestamps are written with or without a zone
\* designator
InitZones ==
  /\ NoApiKey
  /\ engine = "ETAEngine"
  /\ config = eta_config
  /\ \E a, b \in {0, Zoned(0)} :
       positions = <<DriverPosition("driver_002", a),
                     DriverPosition("driver_009", b)>>
  /\ stops \in ZoneStops
  /\ InitRun

\* the stops of the delay demonstration: the stops of driver_002, then the
\* stops of driver_009, each driver's planned 20 minutes apart from 30
\* minutes after the observation
DemoStops ==
  UNION {
    {[j \in 1..n |->
        IF j <= k THEN Stop(j, "driver_002", j, Minutes(10 + 20 * j))
                  ELSE Stop(j, "driver_009", j - k,
                            Minutes(10 + 20 * (j - k)))] : k \in 0..n} :
    n \in 1..MaxStops}

\* the delay demonstration: DelayedETAEngine() over a tight schedule
InitDelayed ==
  /\ NoApiKey
  /\ engine = "DelayedETAEngine"
  /\ config = eta_config
  /\ positions = Observations(0)
  /\ stops \in DemoStops
  /\ InitRun

\* the j-th stop of a route of driver_009 with a stop every 5 km
ScenarioStop(j, planned) ==
  [Stop(j, "driver_009", j, planned) EXCEPT !.latitude = 5 * j]

\* one driver observed at the depot at T0, its stops 5 km apart and planned
\* every 30 minutes from T0, under fixed or sampled traffic
InitScenario ==
  /\ NoApiKey
  /\ engine = "ETAEngine"
  /\ config \in {FixedTrafficConfig, eta_config}
  /\ \E T0 \in Timestamps : \E n \in 0..MaxStops :
       /\ positions = <<DriverPosition("driver_009", T0)>>
       /\ stops = [j \in 1..n |-> ScenarioStop(j, T0 + Minutes(30) * j)]
  /\ InitRun

\* the pipeline with or without an API key, against every behaviour of the
\* service
InitLLM ==
  /\ \/ NoApiKey
     \/ llm_available = TRUE /\ service \in ServiceBehaviours
  /\ engine = "ETAEngine"
  /\ config = eta_config
  /\ positions = Observations(0)
  /\ stops \in OverdueStops
  /\ InitRun

\* an exception leaves calculate_all_etas: its frames and the results
\* gathered so far are gone
Raise(exception) ==
  /\ pc' = exception
  /\ DropLocals
  /\ all_eta_results' = <<>>
  /\ UNCHANGED <<inputs, comms, pidx, eta_df, alerts_df>>

(***************************************************************************)
(* calculate_all_etas and calculate_eta_for_driver.                        *)
(***************************************************************************)
\* for position in positions: calculate_eta_for_driver(position, stops),
\* up to the head of its loop over the driver's stops
CallDriver ==
  /\ pc = "calculate_all_etas"
  /\ pidx <= Len(positions)
  /\ LET driver_position == positions[pidx] IN
       IF ~IsoParses(driver_position.timestamp)
         THEN Raise("ValueError")
         ELSE
           /\ driver_id' = driver_position.driver_id
           /\ avg_speed' = SpeedOf(config, driver_position.driver_id)
           /\ driver_stops' =
                SortBySequence(StopsOfDriver(stops, driver_position.driver_id))
           /\ cumulative_time' = driver_position.timestamp
           /\ current_position' =
                <<driver_position.latitude, driver_position.longitude>>
           /\ eta_results' = <<>>
           /\ sidx' = 1
           /\ pc' = "calculate_eta_for_driver"
           /\ UNCHANGED <<inputs, comms, pidx, all_eta_results, eta_df, alerts_df>>

\* a slip: the travel time is not added to the running clock
ArrivalTime_TravelOnly(cumulative, travel_time) == travel_time

\* arrival_time = cumulative_time + timedelta(minutes=travel_time_min)
ArrivalTime(cumulative, travel_time) == cumulative + travel_time

\* a slip: the operands of the subtraction exchanged
DelayTicks_Reversed(arrival_time, planned_eta) ==
  TotalTicks(planned_eta, arrival_time)

\* (arrival_time - planned_eta).total_seconds() / 60, in ticks
DelayTicks(arrival_time, planned_eta) == TotalTicks(arrival_time, planned_eta)

\* a slip: the threshold itself counts as delayed
IsDelayed_AtThreshold(delay, cfg) == delay >= Minutes(cfg.DELAY_THRESHOLD)

\* delay_minutes > self.config.DELAY_THRESHOLD, on the unrounded delay
IsDelayed(delay, cfg) == delay > Minutes(cfg.DELAY_THRESHOLD)

\* a slip: the dwell at the stop is forgotten
DepartureTime_NoService(arrival_time, cfg) == arrival_time

\* cumulative_time = arrival_time + timedelta(minutes=STOP_SERVICE_TIME)
DepartureTime(arrival_time, cfg) ==
  arrival_time + Minutes(cfg.STOP_SERVICE_TIME)

\* a slip: the cursor stays at the live position
AdvancePosition_Stay(position, stop_position) == position

\* current_position = stop_position
AdvancePosition(position, stop_position) == stop_position

\* the record of one stop, reached at arrival_time over a leg of
\* distance_km driven under traffic_multiplier; distance_km and
\* traffic_multiplier lie on the km and tenth grids, which round(x, 2) keeps
EtaRecord(d, speed, cfg, stop, distance_km, traffic_multiplier, travel_time, arrival_time) ==
  LET delay == DelayTicks(arrival_time, stop.planned_eta) IN
  [driver_id |-> d,
   stop_id |-> stop.stop_id,
   sequence |-> stop.sequence,
   customer_name |-> stop.customer_name,
   distance_km |-> distance_km,
   travel_time_min |-> Round1(travel_time),
   service_time_min |-> cfg.STOP_SERVICE_TIME,
   planned_eta |-> stop.planned_eta,
   calculated_eta |-> arrival_time,
   delay_minutes |-> Round1(delay),
   avg_speed_kmh |-> speed,
   traffic_multiplier |-> traffic_multiplier,
   is_delayed |-> IsDelayed(delay, cfg),
   latitude |-> stop.latitude,
   longitude |-> stop.longitude]

\* eta_result of the running call: its driver, speed and configuration
EtaResult(stop, distance_km, traffic_multiplier, travel_time, arrival_time) ==
  EtaRecord(driver_id, avg_speed, config, stop, distance_km,
            traffic_multiplier, travel_time, arrival_time)

\* one iteration of "for stop in driver_stops"
ProjectStop ==
  /\ pc = "calculate_eta_for_driver"
  /\ sidx <= Len(driver_stops)
  /\ \E traffic_multiplier \in TrafficMultiplier(engine, config) :
       LET stop == driver_stops[sidx]
           stop_position == <<stop.latitude, stop.longitude>>
           distance_km ==
             calculate_distance(current_position[1], current_position[2],
                                stop_position[1], stop_position[2])
           travel_time ==
             calculate_travel_time(distance_km, avg_speed, traffic_multiplier)
           arrival_time == ArrivalTime(cumulative_time, travel_time)
       IN IF ~IsoParses(stop.planned_eta)
            THEN Raise("ValueError")
          ELSE IF IsAware(arrival_time) # IsAware(stop.planned_eta)
            THEN Raise("TypeError")
            ELSE
              /\ eta_results' =
                   Append(eta_results,
                          EtaResult(stop, distance_km, traffic_multiplier,
                                    travel_time, arrival_time))
              /\ current_position' =
                   AdvancePosition(current_position, stop_position)
              /\ cumulative_time' = DepartureTime(arrival_time, config)
              /\ sidx' = sidx + 1
              /\ UNCHANGED <<inputs, comms, pc, pidx, driver_id, avg_speed,
                             driver_stops, all_eta_results, eta_df,
                             alerts_df>>

\* extra_service_time = random.uniform(5, 15), or 0 for a result left alone
ExtraServiceTimes == {0, 5, 15}

\* DelayedETAEngine: the result with its service time extended by extra
\* minutes, its calculated_eta moved by as much and its delay recomputed
ExtendService(result, extra, cfg) ==
  IF extra = 0 THEN result
  ELSE LET new_eta == result.calculated_eta + Minutes(extra)
           delay == TotalTicks(new_eta, result.planned_eta)
       IN [result EXCEPT !.service_time_min = @ + extra,
                         !.calculated_eta = new_eta,
                         !.delay_minutes = Round1(delay),
                         !.is_delayed = delay > Minutes(cfg.DELAY_THRESHOLD)]

\* what calculate_eta_for_driver of the engine in use returns for the
\* results of the loop: DelayedETAEngine extends the service of some
DriverEtas(eng, results, cfg) ==
  IF eng = "DelayedETAEngine"
    THEN {[i \in 1..Len(results) |-> ExtendService(results[i], e[i], cfg)] :
            e \in [1..Len(results) -> ExtraServiceTimes]}
    ELSE {results}

\* a slip: the list is assigned, not extended
ExtendResults_Assign(all_results, driver_etas) == driver_etas

\* all_eta_results.extend(driver_etas)
ExtendResults(all_results, driver_etas) == all_results \o driver_etas

\* a slip: the loop is left before the last stop
ReturnDriver_BeforeLast ==
  /\ pc = "calculate_eta_for_driver"
  /\ sidx >= Len(driver_stops)
  /\ \E driver_etas \in DriverEtas(engine, eta_results, config) :
       all_eta_results' = ExtendResults(all_eta_results, driver_etas)
  /\ pidx' = pidx + 1
  /\ pc' = "calculate_all_etas"
  /\ DropLocals
  /\ UNCHANGED <<inputs, comms, eta_df, alerts_df>>

\* a slip: the override also extends the configured service time
ReturnDriver_ExtendsConfig ==
  /\ pc = "calculate_eta_for_driver"
  /\ sidx > Len(driver_stops)
  /\ \E driver_etas \in DriverEtas(engine, eta_results, config) :
       all_eta_results' = ExtendResults(all_eta_results, driver_etas)
  /\ config' = IF engine = "DelayedETAEngine"
                 THEN [config EXCEPT !.STOP_SERVICE_TIME = @ + 5]
                 ELSE config
  /\ pidx' = pidx + 1
  /\ pc' = "calculate_all_etas"
  /\ DropLocals
  /\ UNCHANGED <<engine, positions, stops, llm_available, service, comms,
                 eta_df, alerts_df>>

\* return eta_results; all_eta_results.extend(driver_etas)
ReturnDriver ==
  /\ pc = "calculate_eta_for_driver"
  /\ sidx > Len(driver_stops)
  /\ \E driver_etas \in DriverEtas(engine, eta_results, config) :
       all_eta_results' = ExtendResults(all_eta_results, driver_etas)
  /\ pidx' = pidx + 1
  /\ pc' = "calculate_all_etas"
  /\ DropLocals
  /\ UNCHANGED <<inputs, comms, eta_df, alerts_df>>

\* return pd.DataFrame(all_eta_results)
ReturnAllEtas ==
  /\ pc = "calculate_all_etas"
  /\ pidx > Len(positions)
  /\ eta_df' = all_eta_results
  /\ pc' = "generate_alerts"
  /\ UNCHANGED <<inputs, comms, pidx, locals, all_eta_results, alerts_df>>

(***************************************************************************)
(* ETAEngine's run as a function of its input and of the multiplier drawn  *)
(* for the leg to each stop (ms, by stop_id).                              *)
(***************************************************************************)
\* the loop over the route of driver d from the cursor (cumulative, position)
RECURSIVE ProjectLegs(_, _, _, _, _, _, _)
ProjectLegs(route, ms, cumulative, position, d, speed, cfg) ==
  IF route = <<>> THEN <<>>
  ELSE LET stop == Head(route)
           stop_position == <<stop.latitude, stop.longitude>>
           traffic_multiplier == ms[stop.stop_id]
           distance_km ==
             calculate_distance(position[1], position[2],
                                stop_position[1], stop_position[2])
           travel_time ==
             calculate_travel_time(distance_km, speed, traffic_multiplier)
           arrival_time == ArrivalTime(cumulative, travel_time)
       IN <<EtaRecord(d, speed, cfg, stop, distance_km, traffic_multiplier,
                      travel_time, arrival_time)>>
          \o ProjectLegs(Tail(route), ms, DepartureTime(arrival_time, cfg),
                         AdvancePosition(position, stop_position),
                         d, speed, cfg)

\* ETAEngine.calculate_eta_for_driver(driver_position, stops)
calculate_eta_for_driver(driver_position, ss, ms, cfg) ==
  ProjectLegs(SortBySequence(StopsOfDriver(ss, driver_position.driver_id)),
              ms, driver_position.timestamp,
              <<driver_position.latitude, driver_position.longitude>>,
              driver_position.driver_id,
              SpeedOf(cfg, driver_position.driver_id), cfg)

\* ETAEngine.calculate_all_etas(positions, stops)
RECURSIVE calculate_all_etas(_, _, _, _)
calculate_all_etas(ps, ss, ms, cfg) ==
  IF ps = <<>> THEN <<>>
  ELSE ExtendResults(
         calculate_all_etas(SubSeq(ps, 1, Len(ps) - 1), ss, ms, cfg),
         calculate_eta_for_driver(ps[Len(ps)], ss, ms, cfg))

(***************************************************************************)
(* generate_alerts.                                                        *)
(***************************************************************************)
\* eta_df[eta_df['is_delayed'] == True]
DelayedStops(df) == SelectSeq(df, LAMBDA r : r.is_delayed)

\* a slip: the severity bounds taken inclusive
AlertSeverity_Inclusive(x) ==
  IF x >= 30 * 10 THEN "HIGH" ELSE IF x >= 20 * 10 THEN "MEDIUM" ELSE "LOW"

\* lambda x: 'HIGH' if x > 30 else 'MEDIUM' if x > 20 else 'LOW'
\* (x is the delay_minutes column, tenths of a minute here)
AlertSeverity(x) ==
  IF x > 30 * 10 THEN "HIGH" ELSE IF x > 20 * 10 THEN "MEDIUM" ELSE "LOW"

\* a delayed row with the two alert columns added
AlertRow(r, now) ==
  [driver_id |-> r.driver_id,
   stop_id |-> r.stop_id,
   sequence |-> r.sequence,
   customer_name |-> r.customer_name,
   distance_km |-> r.distance_km,
   travel_time_min |-> r.travel_time_min,
   service_time_min |-> r.service_time_min,
   planned_eta |-> r.planned_eta,
   calculated_eta |-> r.calculated_eta,
   delay_minutes |-> r.delay_minutes,
   avg_speed_kmh |-> r.avg_speed_kmh,
   traffic_multiplier |-> r.traffic_multiplier,
   is_delayed |-> r.is_delayed,
   latitude |-> r.latitude,
   longitude |-> r.longitude,
   alert_timestamp |-> now,
   alert_severity |-> AlertSeverity(r.delay_minutes)]

WithAlertColumns(df, now) == [i \in 1..Len(df) |-> AlertRow(df[i], now)]

RowOrders(n) ==
  {p \in [1..n -> 1..n] : \A a, b \in 1..n : p[a] = p[b] => a = b}

\* a slip: ascending=False left out
SortedByDelayDescending_Ascending(df) ==
  {[i \in 1..Len(df) |-> df[p[i]]] : p \in
     {q \in RowOrders(Len(df)) :
        \A i \in 1..(Len(df) - 1) :
          df[q[i]].delay_minutes <= df[q[i + 1]].delay_minutes}}

\* sort_values('delay_minutes', ascending=False): the default sort kind is
\* not stable, so rows of equal delay may come out in any order
SortedByDelayDescending(df) ==
  {[i \in 1..Len(df) |-> df[p[i]]] : p \in
     {q \in RowOrders(Len(df)) :
        \A i \in 1..(Len(df) - 1) :
          df[q[i]].delay_minutes >= df[q[i + 1]].delay_minutes}}

\* datetime.now() at the call
WallClock == {2000}

\* generate_alerts(eta_df); a frame built from no records has no columns,
\* and eta_df['is_delayed'] then raises KeyError
GenerateAlerts ==
  /\ pc = "generate_alerts"
  /\ IF eta_df = <<>>
       THEN /\ pc' = "KeyError"
            /\ alerts_df' = alerts_df
       ELSE /\ pc' = "done"
            /\ LET delayed_stops == DelayedStops(eta_df) IN
                 IF Len(delayed_stops) = 0
                   THEN alerts_df' = <<>>
                   ELSE \E now \in WallClock :
                          alerts_df' \in SortedByDelayDescending(
                                           WithAlertColumns(delayed_stops, now))
  /\ UNCHANGED <<inputs, comms, pidx, locals, all_eta_results, eta_df>>

(***************************************************************************)
(* LLMIntegration.                                                         *)
(***************************************************************************)
\* the prompts, by template and by the data formatted into it
RoutingSupervisorPrompt(eta_summary) ==
  [template |-> "ROUTING_SUPERVISOR_PROMPT", data |-> eta_summary]

DispatcherAlertPrompt(delayed_stops_text) ==
  [template |-> "DISPATCHER_ALERT_PROMPT", data |-> delayed_stops_text]

CustomerMessagePrompt(stop_info) ==
  [template |-> "CUSTOMER_MESSAGE_PROMPT",
   data |-> <<stop_info.customer_name, stop_info.planned_eta,
              stop_info.calculated_eta, stop_info.delay_minutes>>]

\* phrase in prompt.lower(): the supervisor template reads "You are a routing
\* supervisor AI", the customer template "customer message about a delivery
\* delay"; the dispatcher template reads "dispatcher assistant" and holds
\* none of the phrases
PromptMentions(prompt, phrase) ==
  \/ prompt.template = "ROUTING_SUPERVISOR_PROMPT"
       /\ phrase = "routing supervisor"
  \/ prompt.template = "CUSTOMER_MESSAGE_PROMPT"
       /\ phrase = "customer message"

\* the response of _call_llm: its text, whether json.loads accepts the text,
\* and whether the external service was called for it
Response(text, is_json, attempted) ==
  [text |-> text, is_json |-> is_json, attempted |-> attempted,
   raised |-> FALSE]

\* an exception that leaves _call_llm instead of a response
Raised(exception, attempted) ==
  [text |-> exception, is_json |-> FALSE, attempted |-> attempted,
   raised |-> TRUE]

\* LLMIntegration._generate_mock_response
_generate_mock_response(prompt, attempted) ==
  IF PromptMentions(prompt, "routing supervisor")
    THEN Response("mock supervisor report", TRUE, attempted)
  ELSE IF PromptMentions(prompt, "dispatcher alert")
    THEN Response("mock dispatcher alert", FALSE, attempted)
  ELSE IF PromptMentions(prompt, "customer message")
    THEN Response("mock customer message", FALSE, attempted)
  ELSE Response("Mock LLM response generated due to API unavailability.",
                FALSE, attempted)

\* a slip: the failure of the call is not caught
_call_llm_Uncaught(available, prompt, outcome) ==
  IF ~available THEN _generate_mock_response(prompt, FALSE)
  ELSE IF outcome \in ApiFailures THEN Raised(outcome, TRUE)
  ELSE Response(outcome, outcome = "json_reply", TRUE)

\* LLMIntegration._call_llm, the service answering the call with outcome
_call_llm(available, prompt, outcome) ==
  IF ~available THEN _generate_mock_response(prompt, FALSE)
  ELSE IF outcome \in ApiFailures
    THEN _generate_mock_response(prompt, TRUE)
  ELSE Response(outcome, outcome = "json_reply", TRUE)

\* a slip: the whole frame
head_All(df, n) == df

\* df.head(n)
head(df, n) == SubSeq(df, 1, IF Len(df) < n THEN Len(df) ELSE n)

\* the greatest delay_minutes of df
RECURSIVE MaxDelay(_)
MaxDelay(df) ==
  IF Len(df) = 1 THEN df[1].delay_minutes
  ELSE LET m == MaxDelay(Tail(df)) IN
         IF df[1].delay_minutes >= m THEN df[1].delay_minutes ELSE m

\* the sum of the delay_minutes of df
RECURSIVE SumDelay(_)
SumDelay(df) ==
  IF df = <<>> THEN 0 ELSE df[1].delay_minutes + SumDelay(Tail(df))

\* eta_summary; the mean delay is kept as the exact ratio <<sum, count>>
EtaSummary(df, alerts) ==
  [total_drivers |-> Cardinality({df[i].driver_id : i \in 1..Len(df)}),
   total_stops |-> Len(df),
   delayed_stops |-> Len(alerts),
   average_delay |-> <<SumDelay(df), Len(df)>>,
   max_delay |-> IF Len(df) > 0 THEN MaxDelay(df) ELSE 0]

\* delayed_stops_info: the top 5 alerts
DelayedStopsInfo(alerts) ==
  [i \in 1..Len(head(alerts, TopDelays)) |->
     [stop_id |-> alerts[i].stop_id,
      driver_id |-> alerts[i].driver_id,
      delay_minutes |-> alerts[i].delay_minutes,
      customer |-> alerts[i].customer_name]]

\* the lines of delayed_stops_text: the top 5 alerts
DelayedStopsText(alerts) ==
  [i \in 1..Len(head(alerts, TopDelays)) |->
     <<alerts[i].driver_id, alerts[i].sequence, alerts[i].customer_name,
       alerts[i].delay_minutes>>]

\* generate_routing_supervisor_report after response = self._call_llm(prompt):
\* json.loads(response), or the templated report on JSONDecodeError
RoutingSupervisorReport(df, alerts, response) ==
  IF response.is_json
    THEN [parsed |-> response.text]
    ELSE [summary |-> <<EtaSummary(df, alerts).total_drivers,
                        EtaSummary(df, alerts).total_stops,
                        EtaSummary(df, alerts).delayed_stops>>,
          delays |-> DelayedStopsInfo(alerts),
          recommendations |->
            <<"Review delayed stops", "Contact affected customers">>,
          risk_level |->
            IF EtaSummary(df, alerts).delayed_stops > 0 THEN "MEDIUM"
                                                        ELSE "LOW",
          raw_response |-> response.text]

NoDelaysText == "No delivery delays detected. All stops are on schedule."

\* a slip: the dispatcher prompt is sent also when nothing is delayed
CallsOf_DispatcherAlways(df, alerts) ==
  <<_call_llm(llm_available,
              RoutingSupervisorPrompt(EtaSummary(df, alerts)), service[1]),
    _call_llm(llm_available,
              DispatcherAlertPrompt(DelayedStopsText(alerts)), service[2])>>
  \o [i \in 1..Len(alerts) |->
        _call_llm(llm_available, CustomerMessagePrompt(alerts[i]),
                  service[2 + i])]

\* the calls of _call_llm that generate_all_communications makes, in order:
\* the supervisor report, the dispatcher alert when there are alerts, and a
\* customer message for each alert
CallsOf(df, alerts) ==
  <<_call_llm(llm_available,
              RoutingSupervisorPrompt(EtaSummary(df, alerts)), service[1])>>
  \o (IF Len(alerts) = 0 THEN <<>>
      ELSE <<_call_llm(llm_available,
                       DispatcherAlertPrompt(DelayedStopsText(alerts)),
                       service[2])>>)
  \o [i \in 1..Len(alerts) |->
        _call_llm(llm_available, CustomerMessagePrompt(alerts[i]),
                  service[2 + i])]

\* the calls made until one raises
CallsMade(calls) ==
  IF \E k \in 1..Len(calls) : calls[k].raised
    THEN SubSeq(calls, 1,
                CHOOSE k \in 1..Len(calls) :
                  /\ calls[k].raised
                  /\ \A j \in 1..(k - 1) : ~calls[j].raised)
    ELSE calls

\* LLMIntegration.generate_all_communications(eta_df, alerts_df); none of
\* its callers or callees but _call_llm catches an exception of the call
GenerateAllCommunications ==
  /\ pc = "done"
  /\ LET calls == CallsMade(CallsOf(eta_df, alerts_df))
         attempted == {k \in 1..Len(calls) : calls[k].attempted}
     IN /\ api_calls' = api_calls + Cardinality(attempted)
        /\ IF calls[Len(calls)].raised
             THEN /\ pc' = calls[Len(calls)].text
                  /\ communications' = communications
             ELSE /\ pc' = "communicated"
                  /\ \E now \in WallClock :
                       communications' =
                         [timestamp |-> now,
                          routing_supervisor_report |->
                            RoutingSupervisorReport(eta_df, alerts_df,
                                                    calls[1]),
                          dispatcher_alert |->
                            IF Len(alerts_df) = 0 THEN NoDelaysText
                                                  ELSE calls[2].text,
                          customer_messages |->
                            [i \in 1..Len(alerts_df) |->
                               [stop_id |-> alerts_df[i].stop_id,
                                customer_name |-> alerts_df[i].customer_name,
                                delay_minutes |-> alerts_df[i].delay_minutes,
                                message |-> calls[2 + i].text]]]
  /\ UNCHANGED <<inputs, pidx, locals, all_eta_results, eta_df, alerts_df>>

Next ==
  \/ CallDriver
  \/ ProjectStop
  \/ ReturnDriver
  \/ ReturnAllEtas
  \/ GenerateAlerts
  \/ GenerateAllCommunications

Spec == Init /\ [][Next]_vars

\* runs over inputs that break the data model
SpecLoose == InitLoose /\ [][Next]_vars

\* runs of the delay demonstration
SpecDelayed == InitDelayed /\ [][Next]_vars

\* runs over the timing inputs alone
SpecTimings == InitTimings /\ [][Next]_vars

\* runs over overdue routes in which the program goes on as long as it has a
\* next step
SpecLive == InitOverdue /\ [][Next]_vars /\ WF_vars(Next)

\* runs of the pipeline over a long route
SpecBusy == InitBusy /\ [][Next]_vars

\* runs over inputs of mixed zone notation
SpecZones == InitZones /\ [][Next]_vars

\* runs of the one-driver scenario
SpecScenario == InitScenario /\ [][Next]_vars

\* runs of the pipeline against the external service
SpecLLM == InitLLM /\ [][Next]_vars

(***************************************************************************)
(* Vocabulary of the properties.                                           *)
(***************************************************************************)
\* every projection emitted so far in the run
Emitted == all_eta_results \o eta_results

\* the run has left calculate_all_etas
Projected == pc \in {"generate_alerts", "done", "KeyError"}

\* the projections of driver d among the records of df, in df's order
EtasOfDriver(df, d) == SelectSeq(df, LAMBDA r : r.driver_id = d)

\* the observation of driver d in the input
ObservationOf(d) ==
  positions[CHOOSE i \in 1..Len(positions) : positions[i].driver_id = d]

\* the number of input stops of driver d
StopCount(d) == Cardinality({j \in 1..Len(stops) : stops[j].driver_id = d})

\* the travel time the record r reports for its leg, in ticks
LegTravelTime(r) ==
  IF r.avg_speed_kmh <= 0 THEN 0
  ELSE (r.distance_km * r.traffic_multiplier * 6 * TicksPerMinute)
         \div r.avg_speed_kmh

\* C1: the first projected arrival of a driver is the observation time plus
\* the travel time of the first leg, and every later one is the previous
\* projected arrival plus STOP_SERVICE_TIME plus the travel time of its leg
C1_ArrivalsAreChained ==
  \A d \in DriverIds :
    LET R == EtasOfDriver(Emitted, d) IN
    \A i \in 1..Len(R) :
      R[i].calculated_eta =
        (IF i = 1 THEN ObservationOf(d).timestamp
                  ELSE R[i - 1].calculated_eta
                         + Minutes(config.STOP_SERVICE_TIME))
        + LegTravelTime(R[i])

\* a driver with a second stop, reached after a dwell and a drive
C1_Witness ==
  /\ pc = "done"
  /\ config.STOP_SERVICE_TIME > 0
  /\ \E d \in DriverIds :
       /\ Len(EtasOfDriver(eta_df, d)) >= 2
       /\ LegTravelTime(EtasOfDriver(eta_df, d)[2]) > 0

\* C2: once calculate_all_etas has returned, every driver has as many
\* projection records as the input holds stops of that driver
C2_OneRecordPerStop ==
  Projected =>
    \A d \in DriverIds :
      Cardinality({i \in 1..Len(eta_df) : eta_df[i].driver_id = d})
        = StopCount(d)

\* both drivers have stops, one of them several
C2_Witness ==
  /\ Projected
  /\ \E d, e \in DriverIds : /\ StopCount(d) >= 2
                             /\ StopCount(e) = 1
                             /\ Len(EtasOfDriver(eta_df, d)) >= 2

\* C3: the projections of one driver come in ascending sequence order, in
\* the driver's own result and in the merged result
C3_SequenceOrderKept ==
  /\ \A i, j \in 1..Len(eta_results) :
       i < j => eta_results[i].sequence < eta_results[j].sequence
  /\ \A i, j \in 1..Len(all_eta_results) :
       (i < j /\ all_eta_results[i].driver_id = all_eta_results[j].driver_id)
         => all_eta_results[i].sequence < all_eta_results[j].sequence
  /\ \A i, j \in 1..Len(eta_df) :
       (i < j /\ eta_df[i].driver_id = eta_df[j].driver_id)
         => eta_df[i].sequence < eta_df[j].sequence

\* the input lists a driver's later stop before an earlier one, and the
\* merged result holds records of both drivers
C3_Witness ==
  /\ Projected
  /\ \E a, b \in 1..Len(stops) :
       /\ a < b
       /\ stops[a].driver_id = stops[b].driver_id
       /\ stops[a].sequence > stops[b].sequence
  /\ \A d \in DriverIds : Len(EtasOfDriver(eta_df, d)) >= 1

\* C4: a driver's projected arrival at a stop is never earlier than the
\* projected arrival at the previous stop plus the service time
C4_MonotonicChaining ==
  \A d \in DriverIds :
    LET R == EtasOfDriver(Emitted, d) IN
    \A i \in 1..(Len(R) - 1) :
      R[i + 1].calculated_eta
        >= R[i].calculated_eta + Minutes(R[i].service_time_min)

\* a driver of negative speed has been projected over two stops
C4_Witness ==
  /\ pc = "done"
  /\ \E d \in DriverIds :
       /\ Len(EtasOfDriver(eta_df, d)) >= 2
       /\ EtasOfDriver(eta_df, d)[2].avg_speed_kmh < 0

\* the kilometres of legs 1..i of the route R driven from position from
RECURSIVE RouteKm(_, _, _)
RouteKm(R, from, i) ==
  IF i = 0 THEN 0
  ELSE RouteKm(R, from, i - 1)
       + calculate_distance(
           IF i = 1 THEN from.latitude ELSE R[i - 1].latitude,
           IF i = 1 THEN from.longitude ELSE R[i - 1].longitude,
           R[i].latitude, R[i].longitude)

\* C5: with no service time and a multiplier of 1.0 on every leg so far,
\* the projected arrival at a stop is the observation time plus the sum of
\* (distance / speed) * 60 minutes over the legs driven, each leg measured
\* from the previous point of the route
C5_CumulativeTime ==
  \A d \in DriverIds :
    LET R == EtasOfDriver(Emitted, d)
        obs == ObservationOf(d)
        speed == SpeedOf(config, d)
    IN \A i \in 1..Len(R) :
         ( /\ config.STOP_SERVICE_TIME = 0
           /\ speed > 0
           /\ \A j \in 1..i : R[j].traffic_multiplier = 10 )
         => (R[i].calculated_eta - obs.timestamp) * speed
              = RouteKm(R, obs, i) * 60 * TicksPerMinute

\* a route of two legs driven at multiplier 1.0 without service time
C5_Witness ==
  /\ pc = "done"
  /\ config.STOP_SERVICE_TIME = 0
  /\ \E d \in DriverIds :
       LET R == EtasOfDriver(eta_df, d) IN
         /\ Len(R) >= 2
         /\ SpeedOf(config, d) > 0
         /\ \A j \in 1..Len(R) : R[j].traffic_multiplier = 10

\* the unrounded delay of a record, in ticks, read off its two timestamps
RecordDelay(r) == r.calculated_eta - r.planned_eta

\* C6 as stated: a record projected later than planned has delay_minutes > 0,
\* one projected earlier has delay_minutes < 0, and delay_minutes is 0 only
\* when the projected arrival is exactly the planned one
C6_StrictDelaySign ==
  \A i \in 1..Len(Emitted) :
    LET r == Emitted[i] IN
      /\ r.calculated_eta > r.planned_eta => r.delay_minutes > 0
      /\ r.calculated_eta < r.planned_eta => r.delay_minutes < 0
      /\ r.delay_minutes = 0 => r.calculated_eta = r.planned_eta

\* C6 amended: delay_minutes is the signed difference projected minus planned
\* rounded to a tenth of a minute, so it is never negative for a later
\* arrival, never positive for an earlier one, 0 for an arrival exactly on
\* time, and within the rounding error of the difference
C6_RoundedDelaySign ==
  \A i \in 1..Len(Emitted) :
    LET r == Emitted[i] IN
      /\ r.calculated_eta > r.planned_eta => r.delay_minutes >= 0
      /\ r.calculated_eta < r.planned_eta => r.delay_minutes <= 0
      /\ r.calculated_eta = r.planned_eta => r.delay_minutes = 0
      /\ Abs(3 * r.delay_minutes - RecordDelay(r)) <= 1

\* a record projected one tick later than planned, reported as 0.0 minutes
C6_Witness ==
  \E i \in 1..Len(Emitted) :
    /\ RecordDelay(Emitted[i]) = 1
    /\ Emitted[i].delay_minutes = 0

\* C7 as stated: is_delayed is true exactly when the record's delay_minutes
\* is greater than DELAY_THRESHOLD
C7_FlagFromRecordedDelay ==
  \A i \in 1..Len(Emitted) :
    Emitted[i].is_delayed
      <=> Emitted[i].delay_minutes > config.DELAY_THRESHOLD * 10

\* C7 amended: is_delayed is true exactly when the unrounded delay, projected
\* minus planned arrival, is greater than DELAY_THRESHOLD; the recorded
\* delay_minutes of a delayed record is never below the threshold and that
\* of a record not delayed never above it
C7_FlagFromUnroundedDelay ==
  \A i \in 1..Len(Emitted) :
    LET r == Emitted[i] IN
      /\ r.is_delayed <=> RecordDelay(r) > Minutes(config.DELAY_THRESHOLD)
      /\ r.is_delayed => r.delay_minutes >= config.DELAY_THRESHOLD * 10
      /\ ~r.is_delayed => r.delay_minutes <= config.DELAY_THRESHOLD * 10

\* a record exactly DELAY_THRESHOLD minutes late, not flagged
C7_Witness ==
  \E i \in 1..Len(Emitted) :
    /\ RecordDelay(Emitted[i]) = Minutes(config.DELAY_THRESHOLD)
    /\ ~Emitted[i].is_delayed

\* C8: every alert has one severity: HIGH iff delay_minutes > 30, MEDIUM iff
\* 20 < delay_minutes <= 30, LOW iff delay_minutes <= 20
C8_SeverityThresholds ==
  \A i \in 1..Len(alerts_df) :
    LET a == alerts_df[i] IN
      /\ a.alert_severity \in {"HIGH", "MEDIUM", "LOW"}
      /\ a.alert_severity = "HIGH" <=> a.delay_minutes > 300
      /\ a.alert_severity = "MEDIUM"
           <=> (200 < a.delay_minutes /\ a.delay_minutes <= 300)
      /\ a.alert_severity = "LOW" <=> a.delay_minutes <= 200

\* alerts of exactly 30.0 and exactly 20.0 minutes, MEDIUM and LOW
C8_Witness ==
  \E i, j \in 1..Len(alerts_df) :
    /\ alerts_df[i].delay_minutes = 300
    /\ alerts_df[i].alert_severity = "MEDIUM"
    /\ alerts_df[j].delay_minutes = 200
    /\ alerts_df[j].alert_severity = "LOW"

\* C9: the alerts are sorted by delay_minutes, worst first
C9_AlertsWorstFirst ==
  \A i \in 1..(Len(alerts_df) - 1) :
    alerts_df[i].delay_minutes >= alerts_df[i + 1].delay_minutes

\* two alerts whose rows stood the other way round in eta_df
C9_Witness ==
  /\ pc = "done"
  /\ Len(alerts_df) >= 2
  /\ alerts_df[1].delay_minutes > alerts_df[2].delay_minutes
  /\ DelayedStops(eta_df)[1].delay_minutes
       < DelayedStops(eta_df)[2].delay_minutes

\* an alert without its two alert columns
ProjectionOf(a) ==
  [driver_id |-> a.driver_id,
   stop_id |-> a.stop_id,
   sequence |-> a.sequence,
   customer_name |-> a.customer_name,
   distance_km |-> a.distance_km,
   travel_time_min |-> a.travel_time_min,
   service_time_min |-> a.service_time_min,
   planned_eta |-> a.planned_eta,
   calculated_eta |-> a.calculated_eta,
   delay_minutes |-> a.delay_minutes,
   avg_speed_kmh |-> a.avg_speed_kmh,
   traffic_multiplier |-> a.traffic_multiplier,
   is_delayed |-> a.is_delayed,
   latitude |-> a.latitude,
   longitude |-> a.longitude]

\* the alerts are the delayed rows of df, each once, fields unchanged
AlertsAreDelayedRowsOf(df) ==
  LET delayed == DelayedStops(df) IN
    /\ Len(alerts_df) = Len(delayed)
    /\ \E p \in RowOrders(Len(delayed)) :
         \A i \in 1..Len(delayed) : ProjectionOf(alerts_df[i]) = delayed[p[i]]

\* C10: a call of generate_alerts returns exactly the delayed projections
\* (an empty result when none is delayed), their projection fields
\* unchanged, and leaves the projections it was given unmodified
C10_AlertsAreTheDelayedRows ==
  pc \in {"done", "KeyError"} =>
    /\ pc = "done"
    /\ AlertsAreDelayedRowsOf(eta_df)
    /\ eta_df = all_eta_results

\* C11: a run over no stops or no driver positions raises nothing and ends
\* with an empty projection collection and an empty alert collection
C11_EmptyInputCompletes ==
  (stops = <<>> \/ positions = <<>>) =>
    /\ pc # "KeyError"
    /\ pc = "done" => (eta_df = <<>> /\ alerts_df = <<>>)

\* the run is over: it returned or an exception left it
RunOver == pc \in {"done", "KeyError", "ValueError", "TypeError"}

\* every timestamp of driver d's observations and stops parses
WellFormedDriver(d) ==
  /\ \A i \in 1..Len(positions) :
       positions[i].driver_id = d => IsoParses(positions[i].timestamp)
  /\ \A j \in 1..Len(stops) :
       stops[j].driver_id = d => IsoParses(stops[j].planned_eta)

\* C12: a driver whose projection fails does not take the others with it:
\* when the run is over, every stop of a well-formed driver that has an
\* observation has its projection in the result
C12_FailuresAreIsolated ==
  RunOver =>
    \A i \in 1..Len(positions) :
      WellFormedDriver(positions[i].driver_id) =>
        \A j \in 1..Len(stops) :
          stops[j].driver_id = positions[i].driver_id =>
            \E k \in 1..Len(eta_df) : eta_df[k].stop_id = stops[j].stop_id

\* two stops of driver d carry the same sequence number
DuplicateSequence(d) ==
  \E a, b \in 1..Len(stops) :
    /\ a # b
    /\ stops[a].driver_id = d
    /\ stops[b].driver_id = d
    /\ stops[a].sequence = stops[b].sequence

\* C13: no route is emitted for a driver whose stops carry a duplicate
\* sequence number
C13_NoRouteForDuplicateSequence ==
  \A i \in 1..Len(Emitted) : ~DuplicateSequence(Emitted[i].driver_id)

\* C14: the result of DelayedETAEngine holds one record per stop, in
\* sequence order for each driver, and every projected arrival is no earlier
\* than the previous record's arrival plus that record's service_time_min
C14_DelayedEngineKeepsContract ==
  Projected =>
    \A d \in DriverIds :
      LET R == EtasOfDriver(eta_df, d) IN
        /\ Len(R) = StopCount(d)
        /\ \A i \in 1..(Len(R) - 1) :
             /\ R[i].sequence < R[i + 1].sequence
             /\ R[i + 1].calculated_eta
                  >= R[i].calculated_eta + Minutes(R[i].service_time_min)

\* calculate_all_etas has just returned its result, eta_df
Returned == pc = "generate_alerts"

\* the multiplier of the leg to each stop as the records of df report it;
\* free-flowing traffic on a leg df has no record of
MultipliersOf(df) ==
  [j \in 1..(MaxStops + 1) |->
     IF \E k \in 1..Len(df) : df[k].stop_id = j
       THEN df[CHOOSE k \in 1..Len(df) : df[k].stop_id = j].traffic_multiplier
       ELSE 10]

\* the delays d of a second run's observation, in ticks: 2 seconds, a tenth
\* of a minute, a minute
Shifts == {1, 3, 30}

\* observations of a second run that reaches the first stop later: taken
\* later at the same place, or at the same time 10 km further south
LaterObservations(obs) ==
  {[obs EXCEPT !.timestamp = @ + d] : d \in Shifts}
    \cup {[obs EXCEPT !.latitude = @ - 10]}

\* the result is the one of the run as a function, under the multipliers the
\* records report
RunIsFunctionOfInput ==
  eta_df = calculate_all_etas(positions, stops, MultipliersOf(eta_df), config)

OtherDriver(a) == CHOOSE b \in DriverIds : b # a

\* one more stop, of the other driver
StopOfOther(a) == Stop(MaxStops + 1, OtherDriver(a), 1, 0)

\* seq in reverse order
Reversed(seq) == [i \in 1..Len(seq) |-> seq[Len(seq) + 1 - i]]

\* inputs <<positions, stops>> that agree with the run's on driver a: the
\* run's own; the other driver's stops removed; the other driver's
\* observation removed; the observations reversed and a stop of the other
\* driver added
InputsKeeping(a) ==
  {<<positions, stops>>,
   <<positions, StopsOfDriver(stops, a)>>,
   <<<<ObservationOf(a)>>, stops>>,
   <<Reversed(positions), Append(stops, StopOfOther(a))>>}

\* C16: with the multiplier of each leg held fixed, the projections of a
\* driver are the same whatever observations and stops of other drivers the
\* input holds
C16_DriversNeverInteract ==
  Returned =>
    \A a \in DriverIds : \A input \in InputsKeeping(a) :
      EtasOfDriver(calculate_all_etas(input[1], input[2],
                                      MultipliersOf(eta_df), config), a)
        = EtasOfDriver(eta_df, a)

\* both drivers have projections in the result
C16_Witness ==
  /\ Returned
  /\ \A a \in DriverIds : EtasOfDriver(eta_df, a) # <<>>

\* C17: a driver absent from DRIVER_SPEEDS is projected without error, every
\* record of it reporting the default 45 km/h; a driver present in the table
\* reports its table value
C17_FallbackSpeed ==
  /\ pc # "ValueError"
  /\ \A i \in 1..Len(Emitted) :
       Emitted[i].avg_speed_kmh =
         IF Emitted[i].driver_id \in DOMAIN config.DRIVER_SPEEDS
           THEN config.DRIVER_SPEEDS[Emitted[i].driver_id]
           ELSE DEFAULT_SPEED
  /\ Projected =>
       \A d \in DriverIds : Len(EtasOfDriver(eta_df, d)) = StopCount(d)

\* the result holds a record of a driver absent from the table and a record
\* of a driver present in it
C17_Witness ==
  /\ Projected
  /\ \E i, k \in 1..Len(eta_df) :
       /\ eta_df[i].driver_id \notin DOMAIN config.DRIVER_SPEEDS
       /\ eta_df[i].avg_speed_kmh = DEFAULT_SPEED
       /\ eta_df[k].driver_id \in DOMAIN config.DRIVER_SPEEDS
       /\ eta_df[k].avg_speed_kmh # DEFAULT_SPEED

\* C18: a driver whose speed is not positive is projected without error with
\* a travel time of 0 on every leg: the first arrival is the observation time
\* and every later one is the previous arrival plus the service time
C18_DegenerateSpeed ==
  /\ pc # "ValueError"
  /\ \A d \in DriverIds :
       LET R == EtasOfDriver(Emitted, d) IN
         \A i \in 1..Len(R) :
           R[i].avg_speed_kmh <= 0 =>
             /\ R[i].travel_time_min = 0
             /\ R[i].calculated_eta =
                  IF i = 1 THEN ObservationOf(d).timestamp
                  ELSE R[i - 1].calculated_eta
                         + Minutes(R[i - 1].service_time_min)

\* a driver with a negative speed and one with speed 0 have each been
\* projected over two legs of positive length
C18_Witness ==
  /\ Projected
  /\ \E a, b \in DriverIds :
       /\ Len(EtasOfDriver(eta_df, a)) >= 2
       /\ EtasOfDriver(eta_df, a)[2].avg_speed_kmh < 0
       /\ EtasOfDriver(eta_df, a)[2].distance_km > 0
       /\ EtasOfDriver(eta_df, b) # <<>>
       /\ EtasOfDriver(eta_df, b)[1].avg_speed_kmh = 0
       /\ EtasOfDriver(eta_df, b)[1].distance_km > 0

\* C19: the default traffic model draws one multiplier for each emitted
\* record, each within the configured TRAFFIC_MULTIPLIER_RANGE
C19_MultiplierWithinRange ==
  \A i \in 1..Len(Emitted) :
    /\ config.TRAFFIC_MULTIPLIER_RANGE[1] <= Emitted[i].traffic_multiplier
    /\ Emitted[i].traffic_multiplier <= config.TRAFFIC_MULTIPLIER_RANGE[2]

\* one route holds the least multiplier of the range on a leg that follows
\* a leg with the greatest
C19_Witness ==
  /\ Projected
  /\ \E d \in DriverIds :
       LET R == EtasOfDriver(eta_df, d) IN
         /\ Len(R) >= 2
         /\ R[1].traffic_multiplier = config.TRAFFIC_MULTIPLIER_RANGE[2]
         /\ R[2].traffic_multiplier = config.TRAFFIC_MULTIPLIER_RANGE[1]
         /\ R[1].traffic_multiplier # R[2].traffic_multiplier

\* the texts _generate_mock_response returns
MockTexts ==
  {"mock supervisor report", "mock dispatcher alert", "mock customer message",
   "Mock LLM response generated due to API unavailability."}

\* C20: a failure of the external service never leaves _call_llm: the call
\* it fails yields the mock text of its prompt; without an API key every text
\* is the mock one and the service is never called; and
\* generate_all_communications completes for every non-empty projection set
C20_ServiceFailureIsContained ==
  /\ pc \notin ApiFailures
  /\ pc = "done" => ENABLED GenerateAllCommunications
  /\ pc = "communicated" =>
       /\ ~llm_available =>
            /\ api_calls = 0
            /\ communications.routing_supervisor_report
                 = [parsed |-> "mock supervisor report"]
            /\ communications.dispatcher_alert \in MockTexts \cup {NoDelaysText}
            /\ \A i \in 1..Len(communications.customer_messages) :
                 communications.customer_messages[i].message
                   = "mock customer message"
       /\ llm_available /\ service[1] \in ApiFailures =>
            communications.routing_supervisor_report
              = [parsed |-> "mock supervisor report"]
       /\ llm_available /\ service[2] \in ApiFailures /\ alerts_df # <<>> =>
            communications.dispatcher_alert \in MockTexts
       /\ \A i \in 1..Len(communications.customer_messages) :
            llm_available /\ service[2 + i] \in ApiFailures =>
              communications.customer_messages[i].message
                = "mock customer message"

\* with an API key, the communications of a run with an alert are complete
\* after the service failed the call for the supervisor report and the call
\* for a customer message
C20_Witness ==
  /\ pc = "communicated"
  /\ llm_available
  /\ api_calls >= 3
  /\ service[1] \in ApiFailures
  /\ service[3] = service[1]
  /\ Len(communications.customer_messages) >= 1

\* calculate_all_etas has returned for a scenario of two stops under traffic
\* fixed at 1.0
TwoLegScenario ==
  /\ Returned
  /\ config = FixedTrafficConfig
  /\ Len(stops) = 2

\* timedelta(seconds=s) for an even number of seconds s
Seconds(s) == (s * TicksPerMinute) \div 60

\* C21: one driver observed at T0 at 45 km/h, service time 5 minutes,
\* multiplier 1.0, two legs of 5 km, planned at T0 + 30 and T0 + 60 minutes:
\* each leg takes 400 s (reported as 6.7 min), stop 1 is projected at
\* T0 + 400 s and stop 2 at T0 + 400 s + 300 s + 400 s, the delays are
\* reported as -23.3 and -41.7 minutes and neither stop is flagged
C21_EndToEndScenario ==
  TwoLegScenario =>
    LET T0 == positions[1].timestamp IN
      /\ Len(eta_df) = 2
      /\ \A i \in 1..2 :
           /\ eta_df[i].avg_speed_kmh = 45
           /\ eta_df[i].service_time_min = 5
           /\ eta_df[i].traffic_multiplier = 10
           /\ eta_df[i].distance_km = 5
           /\ eta_df[i].travel_time_min = 67
           /\ ~eta_df[i].is_delayed
      /\ eta_df[1].calculated_eta = T0 + Seconds(400)
      /\ eta_df[2].calculated_eta
           = T0 + Seconds(400) + Seconds(300) + Seconds(400)
      /\ eta_df[1].delay_minutes = 0 - 233
      /\ eta_df[2].delay_minutes = 0 - 417

\* the two-leg scenario has been projected
C21_Witness ==
  /\ TwoLegScenario
  /\ Len(eta_df) = 2
  /\ eta_df[2].stop_id = 2

\* C22: a projection run is a function of positions, stops, configuration
\* and the multipliers drawn: between two calls of calculate_eta_for_driver
\* and after the last, the records gathered are the ones that function gives
\* for the observations processed, and nothing of a call is left for the
\* next call or the next run to read
C22_RunIsPureFunction ==
  (pc = "calculate_all_etas" \/ Returned) =>
    /\ NoLocals
    /\ all_eta_results
         = calculate_all_etas(SubSeq(positions, 1, pidx - 1), stops,
                              MultipliersOf(all_eta_results), config)
    /\ Returned => eta_df = all_eta_results

\* the run has returned records of both drivers, the second driver's call
\* following a call that projected two stops
C22_Witness ==
  /\ Returned
  /\ Len(EtasOfDriver(eta_df, positions[1].driver_id)) >= 2
  /\ Len(EtasOfDriver(eta_df, positions[2].driver_id)) >= 1

\* C23: no step of calculate_all_etas, of calculate_eta_for_driver (base or
\* DelayedETAEngine) or of generate_alerts changes the configuration or the
\* input stop and position records
C23_InputsAreReadOnly ==
  [][/\ config' = config
     /\ positions' = positions
     /\ stops' = stops]_vars

\* DelayedETAEngine has extended the service of a stop and generate_alerts
\* has returned alerts
C23_Witness ==
  /\ engine = "DelayedETAEngine"
  /\ pc = "done"
  /\ alerts_df # <<>>
  /\ \E i \in 1..Len(eta_df) :
       eta_df[i].service_time_min > config.STOP_SERVICE_TIME

\* C26: every multiplier of the tiered policy lies in the heavy [2.0, 3.5],
\* the moderate [1.5, 2.0] or the normal [0.8, 1.2] tier, none in the gap
\* between 1.2 and 1.5 or outside [0.8, 3.5], and a draw picks the moderate
\* or the normal tier only when it did not pick the heavy one
C26_TieredMultiplier ==
  /\ \A i \in 1..Len(Emitted) :
       LET m == Emitted[i].traffic_multiplier IN
         /\ \/ 20 <= m /\ m <= 35
            \/ 15 <= m /\ m <= 20
            \/ 8 <= m /\ m <= 12
         /\ 8 <= m /\ m <= 35
         /\ ~(12 < m /\ m < 15)
  /\ \A r1, r2 \in RandomDraws :
       /\ TierOf(r1, r2) \in {"heavy", "moderate", "normal"}
       /\ r1 < 3 <=> TierOf(r1, r2) = "heavy"

\* a route of DelayedETAEngine holds a leg of the heavy tier, one of the
\* moderate tier and one of the normal tier
C26_Witness ==
  /\ engine = "DelayedETAEngine"
  /\ Returned
  /\ \E i, j, k \in 1..Len(eta_df) :
       /\ eta_df[i].traffic_multiplier = 35
       /\ eta_df[j].traffic_multiplier = 15
       /\ eta_df[k].traffic_multiplier = 8

\* the least sequence number among the stops of driver d
FirstSequence(d) ==
  CHOOSE q \in {stops[j].sequence : j \in {k \in 1..Len(stops) :
                                            stops[k].driver_id = d}} :
    \A j \in 1..Len(stops) : stops[j].driver_id = d => q <= stops[j].sequence

\* C24: the first leg of a driver runs from the live position to the
\* driver's first stop in sequence order, and every later leg from the
\* previous stop to the current one
C24_PositionCursor ==
  \A d \in DriverIds :
    LET R == EtasOfDriver(Emitted, d)
        live == ObservationOf(d)
    IN \A i \in 1..Len(R) :
         IF i = 1
           THEN /\ R[1].sequence = FirstSequence(d)
                /\ R[1].distance_km =
                     calculate_distance(live.latitude, live.longitude,
                                        R[1].latitude, R[1].longitude)
           ELSE R[i].distance_km =
                  calculate_distance(R[i - 1].latitude, R[i - 1].longitude,
                                     R[i].latitude, R[i].longitude)

\* a later leg runs from a previous stop that lies further from the stop
\* than the live position does
C24_Witness ==
  /\ Returned
  /\ \E d \in DriverIds :
       LET R == EtasOfDriver(eta_df, d)
           live == ObservationOf(d)
       IN /\ Len(R) >= 2
          /\ R[2].distance_km >
               calculate_distance(live.latitude, live.longitude,
                                  R[2].latitude, R[2].longitude)

\* C25: every step inside the loop of calculate_eta_for_driver emits the
\* projection of the next stop of the route and moves on by one; the loop is
\* left only when each stop of the driver has exactly one projection; and
\* the loop is always left
C25_LoopTerminates ==
  /\ [][pc = "calculate_eta_for_driver" =>
          \/ /\ sidx <= Len(driver_stops)
             /\ pc' = pc
             /\ sidx' = sidx + 1
             /\ Len(eta_results') = sidx
             /\ eta_results'[sidx].stop_id = driver_stops[sidx].stop_id
          \/ /\ sidx > Len(driver_stops)
             /\ pc' = "calculate_all_etas"
             /\ Len(eta_results) = StopCount(driver_id)
             /\ \A j \in 1..Len(stops) :
                  stops[j].driver_id = driver_id =>
                    Cardinality({k \in 1..Len(eta_results) :
                                   eta_results[k].stop_id = stops[j].stop_id})
                      = 1]_vars
  /\ (pc = "calculate_eta_for_driver") ~> (pc = "calculate_all_etas")

\* the loop of the first driver has ended after two stops
C25_Witness ==
  /\ pc = "calculate_all_etas"
  /\ pidx = 2
  /\ Len(all_eta_results) >= 2

\* C27: generate_all_communications returns one customer message for each
\* alert, in the order of the alerts and so worst delay first, with the
\* stop_id, customer_name and delay_minutes of its alert; without alerts
\* there is no customer message, the dispatcher alert is the fixed text and
\* the generator was called for the supervisor report only
C27_CustomerMessages ==
  pc = "communicated" =>
    LET msgs == communications.customer_messages
    IN /\ Len(msgs) = Len(alerts_df)
       /\ \A i \in 1..Len(msgs) :
            /\ msgs[i].stop_id = alerts_df[i].stop_id
            /\ msgs[i].customer_name = alerts_df[i].customer_name
            /\ msgs[i].delay_minutes = alerts_df[i].delay_minutes
            /\ msgs[i].message \in MockTexts \cup ApiReplies
       /\ \A i \in 1..(Len(msgs) - 1) :
            msgs[i].delay_minutes >= msgs[i + 1].delay_minutes
       /\ Len(alerts_df) = 0 =>
            /\ msgs = <<>>
            /\ communications.dispatcher_alert = NoDelaysText
            /\ api_calls = IF llm_available THEN 1 ELSE 0

\* communications with a message for each of two alerts of different delay
C27_Witness ==
  /\ pc = "communicated"
  /\ Len(communications.customer_messages) = 2
  /\ communications.customer_messages[1].delay_minutes
       > communications.customer_messages[2].delay_minutes

\* C28: when the service answers the supervisor prompt with text that is not
\* JSON, no exception leaves generate_routing_supervisor_report and the
\* report is the templated one: its delays are the first 5 alerts at most, in
\* the order of the alerts and none less delayed than an alert left out, and
\* its risk_level is MEDIUM when a stop is delayed and LOW otherwise
C28_TemplatedReport ==
  (llm_available /\ service[1] = "text_reply") =>
    /\ pc \notin ApiFailures \cup {"JSONDecodeError"}
    /\ pc = "communicated" =>
         LET report == communications.routing_supervisor_report
             listed == IF Len(alerts_df) < 5 THEN Len(alerts_df) ELSE 5
         IN /\ DOMAIN report =
                 {"summary", "delays", "recommendations", "risk_level",
                  "raw_response"}
            /\ Len(report.delays) = listed
            /\ \A i \in 1..listed :
                 /\ report.delays[i].stop_id = alerts_df[i].stop_id
                 /\ report.delays[i].driver_id = alerts_df[i].driver_id
                 /\ report.delays[i].delay_minutes
                      = alerts_df[i].delay_minutes
                 /\ report.delays[i].customer = alerts_df[i].customer_name
                 /\ \A k \in (listed + 1)..Len(alerts_df) :
                      report.delays[i].delay_minutes
                        >= alerts_df[k].delay_minutes
            /\ report.risk_level =
                 IF \E i \in 1..Len(eta_df) : eta_df[i].is_delayed
                   THEN "MEDIUM" ELSE "LOW"
            /\ report.raw_response = "text_reply"

\* a templated report over six alerts that lists five of them
C28_Witness ==
  /\ pc = "communicated"
  /\ llm_available
  /\ service[1] = "text_reply"
  /\ Len(alerts_df) = 6
  /\ Len(communications.routing_supervisor_report.delays) = 5
  /\ communications.routing_supervisor_report.risk_level = "MEDIUM"

\* C29: in the result of calculate_all_etas every input stop has at most one
\* projection, also when a driver has more than one observation, and a stop
\* of a driver without an observation has none
C29_OneRecordPerStop ==
  Projected =>
    \A j \in 1..Len(stops) :
      LET records == {k \in 1..Len(eta_df) :
                        eta_df[k].stop_id = stops[j].stop_id}
      IN /\ Cardinality(records) <= 1
         /\ (\A i \in 1..Len(positions) :
               positions[i].driver_id # stops[j].driver_id)
              => records = {}

\* C30: zone notation does not matter to the projector: over well-formed
\* timestamps, written with a zone designator or without, no run fails on a
\* stop and the result holds a projection of every stop of an observed
\* driver
C30_ZoneNotationIsTolerated ==
  /\ pc # "TypeError"
  /\ Projected =>
       \A i \in 1..Len(positions) : \A j \in 1..Len(stops) :
         stops[j].driver_id = positions[i].driver_id =>
           \E k \in 1..Len(eta_df) : eta_df[k].stop_id = stops[j].stop_id

====
